---- MODULE Spec2Model ----
(***************************************************************************)
(* Authentication and authorization core of the feedback-system server:    *)
(* password hashing with lazy migration of legacy plaintext secrets         *)
(* (utils/passwordHash.js, features/user/userService.js), JWT issue and     *)
(* verification (utils/jwt.js) and the express middleware chain             *)
(* (middleware/auth.js).                                                    *)
(*                                                                          *)
(* Strings whose structure matters are sequences of atoms.  A password or  *)
(* stored secret is a sequence of string atoms; a bcrypt hash is the        *)
(* sequence <<"$2b$", "12", "$", salt>> \o digest, where the digest of a    *)
(* password under a salt is represented by the password's own atoms (an     *)
(* injective digest).  An Authorization header is a sequence of atoms that  *)
(* are a space, a space-free word, or a compact JWT.                        *)
(***************************************************************************)
EXTENDS Integers, Sequences, FiniteSets, TLC

VARIABLES users, nextId, now, held, proc, res, req, ext, env, conn, feedbacks,
          client

vars ==
  <<users, nextId, now, held, proc, res, req, ext, env, conn, feedbacks, client>>

----------------------------------------------------------------------------
(* Bounds of the model *)

MaxUsers == 2
MaxTime == 1
MaxHeaderLen == 4
MaxLifetimeLen == 3
MaxFeedback == 2

Procs == {"p1"}
Salts == {"s1", "s2"}

P1 == <<"admin123">>
P2 == <<"plainpassword">>
PLooksHashed == <<"$2a$", "12", "$", "plain">>
NewPasswords == {P2}
LoginPasswords == {P1, P2, PLooksHashed}

EmailInputs == {"admin@test.com", "Admin@Test.com", "a@b.com"}
Roles == {"admin", "user"}

----------------------------------------------------------------------------
(* JavaScript values *)

NULL == [null |-> TRUE]
UNDEFINED == [undefined |-> TRUE]
Some(v) == [v |-> v]
Optional(S) == {UNDEFINED} \cup {Some(v) : v \in S}
Thrown(name, message) == [thrown |-> name, message |-> message]
IsThrown(v) == "thrown" \in DOMAIN v

toLowerCase(e) ==
  CASE e = "Admin@Test.com" -> "admin@test.com"
    [] OTHER -> e

----------------------------------------------------------------------------
(* middleware/errorHandler.js: the error classes *)

AppError(name, message, statusCode, errorCode) ==
  [name |-> name, message |-> message, statusCode |-> statusCode,
   errorCode |-> errorCode, isOperational |-> TRUE]

AuthError(message) == AppError("AuthError", message, 401, "AUTH_ERROR")
ForbiddenError(message) == AppError("ForbiddenError", message, 403, "FORBIDDEN")
\* `${resource} not found`
NotFoundError(resource) ==
  AppError("NotFoundError",
           IF resource = "User" THEN "User not found" ELSE "Resource not found",
           404, "NOT_FOUND")
ConflictError(message) == AppError("ConflictError", message, 409, "CONFLICT")
ValidationError(message) ==
  AppError("ValidationError", message, 400, "VALIDATION_ERROR")

Response(status, error, message) ==
  [status |-> status, body |-> [error |-> error, message |-> message]]

\* What the MongoDB driver throws when a write breaks a unique index
DuplicateKeyError(field) ==
  [thrown |-> "MongoServerError", message |-> "E11000 duplicate key error",
   code |-> 11000, keyValue |-> <<field>>]

\* Faulty variant: the unknown error's own message is always sent
errorHandler_LeakMessage(err) ==
  IF "isOperational" \in DOMAIN err
    THEN Response(err.statusCode, err.errorCode, err.message)
  ELSE IF err.thrown = "ValidationError"
    THEN Response(400, "VALIDATION_ERROR", "Validation failed")
  ELSE IF "code" \in DOMAIN err /\ err.code = 11000
    THEN Response(409, "CONFLICT",
                  IF err.keyValue[1] = "email" THEN "email already exists"
                                               ELSE "key already exists")
  ELSE IF err.thrown = "CastError"
    THEN Response(400, "BAD_REQUEST", "Invalid _id")
  ELSE IF err.thrown = "JsonWebTokenError"
    THEN Response(401, "AUTH_ERROR", "Invalid token")
  ELSE IF err.thrown = "TokenExpiredError"
    THEN Response(401, "AUTH_ERROR", "Token expired")
  ELSE Response(500, "INTERNAL_ERROR",
                err.message)

\* The global error handler: an operational error answers with its own
\* status and code, the Mongoose and JWT errors it names with theirs, and
\* anything else with 500 INTERNAL_ERROR (the error's own message unless
\* NODE_ENV is "production")
errorHandler(err) ==
  IF "isOperational" \in DOMAIN err
    THEN Response(err.statusCode, err.errorCode, err.message)
  ELSE IF err.thrown = "ValidationError"
    THEN Response(400, "VALIDATION_ERROR", "Validation failed")
  ELSE IF "code" \in DOMAIN err /\ err.code = 11000
    THEN Response(409, "CONFLICT",
                  IF err.keyValue[1] = "email" THEN "email already exists"
                                               ELSE "key already exists")
  ELSE IF err.thrown = "CastError"
    THEN Response(400, "BAD_REQUEST", "Invalid _id")
  ELSE IF err.thrown = "JsonWebTokenError"
    THEN Response(401, "AUTH_ERROR", "Invalid token")
  ELSE IF err.thrown = "TokenExpiredError"
    THEN Response(401, "AUTH_ERROR", "Token expired")
  ELSE Response(500, "INTERNAL_ERROR",
                IF env.NODE_ENV = Some("production")
                  THEN "An unexpected error occurred"
                  ELSE err.message)

----------------------------------------------------------------------------
(* utils/passwordHash.js *)

SALT_ROUNDS == "12"

\* Faulty variant: the password is stored as given
hashPassword_Plain(password, salt) == password

\* What bcrypt.genSalt gives when the backend fails, and what is thrown then
GenSaltThrows == "throws"
HashFault == Thrown("Error", "Illegal arguments")
hashThrows(salt) == salt = GenSaltThrows

\* bcrypt.genSalt then bcrypt.hash(password, salt): "$2b$" cost "$" salt
\* digest, or what the backend threw
hashPassword(password, salt) ==
  IF hashThrows(salt) THEN HashFault
                      ELSE <<"$2b$", SALT_ROUNDS, "$", salt>> \o password

\* Faulty variant: only the "$2a$" prefix is recognised
isBcryptHash_Only2a(str) ==
  /\ Len(str) >= 3
  /\ str[1] = "$2a$"
  /\ str[2] \in {"10", "12"}
  /\ str[3] = "$"

\* /^\$2[aby]\$\d{2}\$/.test(str)
isBcryptHash(str) ==
  /\ Len(str) >= 3
  /\ str[1] \in {"$2a$", "$2b$", "$2y$"}
  /\ str[2] \in {"10", "12"}
  /\ str[3] = "$"

\* bcrypt.compare: false for a string that is no complete hash, otherwise
\* the digest of the password under the hash's salt equals the hash's digest
comparePassword(password, hashedPassword) ==
  /\ isBcryptHash(hashedPassword)
  /\ Len(hashedPassword) >= 5
  /\ hashedPassword[4] \in Salts
  /\ SubSeq(hashedPassword, 5, Len(hashedPassword)) = password

----------------------------------------------------------------------------
(* utils/jwt.js, with jsonwebtoken's sign and verify *)

\* The value of process.env.JWT_SECRET where it is set; OtherKey signs tokens
\* the server did not issue
JWT_SECRET == "server-key"
OtherKey == "other-key"

\* process.env with the signing key set, and with the key absent
Configured == [JWT_SECRET |-> Some(JWT_SECRET), NODE_ENV |-> UNDEFINED]
KeyAbsent == [JWT_SECRET |-> UNDEFINED, NODE_ENV |-> UNDEFINED]

\* process.env.JWT_EXPIRES_IN || "7d", in clock ticks
JWT_EXPIRES_IN == 1

\* A compact JWT: the payload and the key its signature was made with
Jwt(payload, key) == [kind |-> "jwt", payload |-> payload, sig |-> key]

\* Faulty variant: without a key the token is signed with the empty key
jwtSign_EmptyKey(payload, secret, expiresIn, t) ==
  Jwt([id |-> payload.id, email |-> payload.email, role |-> payload.role,
       iat |-> t, exp |-> t + expiresIn],
      IF secret = UNDEFINED THEN "" ELSE secret.v)

\* jwt.sign(payload, secret, {expiresIn}): throws without a key, otherwise
\* adds iat and exp = iat + expiresIn and signs
jwtSign(payload, secret, expiresIn, t) ==
  IF secret = UNDEFINED
    THEN Thrown("Error", "secretOrPrivateKey must have a value")
    ELSE Jwt([id |-> payload.id, email |-> payload.email,
              role |-> payload.role, iat |-> t, exp |-> t + expiresIn],
             secret.v)

\* Faulty variant: the lifetime is left out of the expiry
generateToken_ExpiresNow(user, t) ==
  jwtSign([id |-> user._id, email |-> user.email, role |-> user.role],
          env.JWT_SECRET, 0, t)

generateToken(user, t) ==
  jwtSign([id |-> user._id, email |-> user.email, role |-> user.role],
          env.JWT_SECRET, JWT_EXPIRES_IN, t)

\* Faulty variant: a token is still accepted at its expiry time
jwtVerify_LateExpiry(token, secret, t) ==
  IF token = <<>>
    THEN Thrown("JsonWebTokenError", "jwt must be provided")
  ELSE IF Len(token) # 1 \/ token[1].kind # "jwt"
    THEN Thrown("JsonWebTokenError", "jwt malformed")
  ELSE IF secret = UNDEFINED
    THEN Thrown("JsonWebTokenError", "secret or public key must be provided")
  ELSE IF token[1].sig # secret.v
    THEN Thrown("JsonWebTokenError", "invalid signature")
  ELSE IF t > token[1].payload.exp
    THEN Thrown("TokenExpiredError", "jwt expired")
  ELSE token[1].payload

\* jwt.verify(token, secret): the payload, or the error it throws
jwtVerify(token, secret, t) ==
  IF token = <<>>
    THEN Thrown("JsonWebTokenError", "jwt must be provided")
  ELSE IF Len(token) # 1 \/ token[1].kind # "jwt"
    THEN Thrown("JsonWebTokenError", "jwt malformed")
  ELSE IF secret = UNDEFINED
    THEN Thrown("JsonWebTokenError", "secret or public key must be provided")
  ELSE IF token[1].sig # secret.v
    THEN Thrown("JsonWebTokenError", "invalid signature")
  ELSE IF t >= token[1].payload.exp
    THEN Thrown("TokenExpiredError", "jwt expired")
  ELSE token[1].payload

\* Faulty variant: what jwt.verify throws reaches the caller
verifyToken_Rethrow(token, t) == jwtVerify(token, env.JWT_SECRET, t)

\* try { return jwt.verify(...) } catch { return null }
verifyToken(token, t) ==
  LET r == jwtVerify(token, env.JWT_SECRET, t)
  IN IF IsThrown(r) THEN NULL ELSE r

----------------------------------------------------------------------------
(* features/user: model and repository over the users collection *)

NoPassword(doc) ==
  [_id |-> doc._id, email |-> doc.email, role |-> doc.role,
   isVerified |-> doc.isVerified]

\* Faulty variant: the select is left out
findById_WithPassword(coll, id) ==
  IF id \in DOMAIN coll THEN coll[id] ELSE NULL

\* this.model.findById(id).select("-password")
findById(coll, id) ==
  IF id \in DOMAIN coll THEN NoPassword(coll[id]) ELSE NULL

\* this.model.find().select("-password"): the documents, here by id
findAll(coll) == [id \in DOMAIN coll |-> NoPassword(coll[id])]

\* this.model.findOne({ email: email.toLowerCase() })
findByEmail(coll, email) ==
  IF \E i \in DOMAIN coll : coll[i].email = toLowerCase(email)
    THEN coll[CHOOSE i \in DOMAIN coll : coll[i].email = toLowerCase(email)]
    ELSE NULL

\* countDocuments({ email: email.toLowerCase() }) > 0
\* Faulty variant: the email is counted as given
existsByEmail_CaseSensitive(coll, email) ==
  Cardinality({i \in DOMAIN coll : coll[i].email = email}) > 0

existsByEmail(coll, email) ==
  Cardinality({i \in DOMAIN coll : coll[i].email = toLowerCase(email)}) > 0

\* this.model.create(data): the schema lowercases the email
create(coll, id, data) ==
  [i \in DOMAIN coll \cup {id} |->
     IF i = id
       THEN [_id |-> id, email |-> toLowerCase(data.email),
             password |-> data.password, role |-> data.role,
             isVerified |-> data.isVerified]
       ELSE coll[i]]

\* findByIdAndUpdate(id, { password: hashedPassword }): no document, no write
updatePassword(coll, id, hashedPassword) ==
  IF id \in DOMAIN coll
    THEN [coll EXCEPT ![id].password = hashedPassword]
    ELSE coll

\* The unique index on email: a write of this email to document id collides
\* Faulty variant: the schema's email carries no unique index
DuplicateKey_NotUnique(coll, id, email) == FALSE

DuplicateKey(coll, id, email) ==
  \E i \in DOMAIN coll \ {id} : coll[i].email = toLowerCase(email)

\* findByIdAndUpdate(id, data, { new: true, runValidators: true })
update(coll, id, data) ==
  IF id \in DOMAIN coll
    THEN [coll EXCEPT ![id] =
            [_id |-> id,
             email |-> IF data.email = UNDEFINED THEN @.email
                       ELSE toLowerCase(data.email.v),
             password |-> IF data.password = UNDEFINED THEN @.password
                          ELSE data.password.v,
             role |-> IF data.role = UNDEFINED THEN @.role ELSE data.role.v,
             isVerified |-> IF data.isVerified = UNDEFINED THEN @.isVerified
                            ELSE data.isVerified.v]]
    ELSE coll

\* findByIdAndDelete(id)
delete(coll, id) == [i \in DOMAIN coll \ {id} |-> coll[i]]

----------------------------------------------------------------------------
(* middleware/auth.js *)

SP == [kind |-> "sp"]
Word(w) == [kind |-> "word", text |-> w]
Str(atoms) == [str |-> atoms]

\* Faulty variant: a run of spaces separates like one space
RECURSIVE split_Runs(_)
split_Runs(s) ==
  IF s = <<>> THEN << <<>> >>
  ELSE LET rest == split_Runs(Tail(s))
       IN IF Head(s) = SP
            THEN IF Len(s) > 1 /\ s[2] = SP THEN rest ELSE << <<>> >> \o rest
            ELSE << <<Head(s)>> \o Head(rest) >> \o Tail(rest)

\* String.prototype.split(" "): the space-free runs, empty ones included
RECURSIVE split(_)
split(s) ==
  IF s = <<>> THEN << <<>> >>
  ELSE LET rest == split(Tail(s))
       IN IF Head(s) = SP
            THEN << <<>> >> \o rest
            ELSE << <<Head(s)>> \o Head(rest) >> \o Tail(rest)

\* The value extractToken returns and the tokens it passed to verifyToken
extractToken(authHeader, t) ==
  IF authHeader = UNDEFINED \/ authHeader = Str(<<>>)
    THEN [ret |-> NULL, verified |-> <<>>]
  ELSE LET parts == split(authHeader.str)
       IN IF Len(parts) # 2 \/ parts[1] # <<Word("Bearer")>>
            THEN [ret |-> NULL, verified |-> <<>>]
            ELSE [ret |-> verifyToken(parts[2], t), verified |-> <<parts[2]>>]

\* next(): the request goes on; next(err): it goes to the error handler
next(r, err) == [r EXCEPT !.err = err, !.nexts = @ + 1]

\* User.findById(decoded.id).select("-password"): the query rejects while the
\* database connection is down
User_findById(coll, id) ==
  IF conn = "down"
    THEN Thrown("MongooseError", "Operation users.findOne() buffering timed out")
    ELSE findById(coll, id)

\* Faulty variant: the identity is taken from the token, the store is not read
requireAuth_TrustToken(r, coll, t) ==
  LET decoded == extractToken(r.headers.authorization, t).ret
  IN IF IsThrown(decoded)
       THEN next(r, AuthError("Authentication failed"))
     ELSE IF decoded = NULL
       THEN next(r, AuthError("Invalid or expired token"))
     ELSE next([r EXCEPT !.user = [_id |-> decoded.id, email |-> decoded.email,
                                   role |-> decoded.role, isVerified |-> FALSE],
                         !.tokenPayload = decoded],
               NULL)

\* Faulty variant: a token whose role claim is out of date is refused
requireAuth_RejectStale(r, coll, t) ==
  LET decoded == extractToken(r.headers.authorization, t).ret
  IN IF IsThrown(decoded)
       THEN next(r, AuthError("Authentication failed"))
     ELSE IF decoded = NULL
       THEN next(r, AuthError("Invalid or expired token"))
     ELSE LET user == User_findById(coll, decoded.id)
          IN IF IsThrown(user)
               THEN next(r, AuthError("Authentication failed"))
             ELSE IF user = NULL
               THEN next(r, AuthError("User no longer exists"))
             ELSE IF user.role # decoded.role
               THEN next(r, AuthError("Invalid or expired token"))
             ELSE next([r EXCEPT !.user = user, !.tokenPayload = decoded],
                       NULL)

\* Faulty variant: what the lookup threw is passed on as the error
requireAuth_LeakFault(r, coll, t) ==
  LET decoded == extractToken(r.headers.authorization, t).ret
  IN IF IsThrown(decoded)
       THEN next(r, AuthError("Authentication failed"))
     ELSE IF decoded = NULL
       THEN next(r, AuthError("Invalid or expired token"))
     ELSE LET user == User_findById(coll, decoded.id)
          IN IF IsThrown(user)
               THEN next(r, user)
             ELSE IF user = NULL
               THEN next(r, AuthError("User no longer exists"))
             ELSE next([r EXCEPT !.user = user, !.tokenPayload = decoded],
                       NULL)

\* The whole body runs in try/catch: anything thrown becomes the generic denial
requireAuth(r, coll, t) ==
  LET decoded == extractToken(r.headers.authorization, t).ret
  IN IF IsThrown(decoded)
       THEN next(r, AuthError("Authentication failed"))
     ELSE IF decoded = NULL
       THEN next(r, AuthError("Invalid or expired token"))
     ELSE LET user == User_findById(coll, decoded.id)
          IN IF IsThrown(user)
               THEN next(r, AuthError("Authentication failed"))
             ELSE IF user = NULL
               THEN next(r, AuthError("User no longer exists"))
             ELSE next([r EXCEPT !.user = user, !.tokenPayload = decoded],
                       NULL)

\* Faulty variant: any authenticated account passes
requireAdmin_AnyUser(r) ==
  IF r.user = UNDEFINED
    THEN next(r, AuthError("Authentication required"))
    ELSE next(r, NULL)

\* Faulty variant: the role is read from the token's claims
requireAdmin_TokenRole(r) ==
  IF r.user = UNDEFINED
    THEN next(r, AuthError("Authentication required"))
  ELSE IF r.tokenPayload.role # "admin"
    THEN next(r, ForbiddenError("Admin access required"))
  ELSE next(r, NULL)

requireAdmin(r) ==
  IF r.user = UNDEFINED
    THEN next(r, AuthError("Authentication required"))
  ELSE IF r.user.role # "admin"
    THEN next(r, ForbiddenError("Admin access required"))
  ELSE next(r, NULL)

\* ObjectId.prototype.toString(): the id in lower-case hexadecimal
Hex == <<"1", "2", "3", "4">>
toString(id) == Str(<<"a", Hex[id]>>)

\* The same id spelled with upper-case hexadecimal digits
UpperCase(id) == Str(<<"A", Hex[id]>>)

\* Faulty variant: a request without an identity is called forbidden
requireOwnershipOrAdmin_ForbidAnonymous(paramField, r) ==
  IF r.user = UNDEFINED
    THEN next(r, ForbiddenError("You can only access your own resources"))
  ELSE LET requestedUserId == r.params[paramField]
           currentUserId == toString(r.user._id)
           isAdmin == r.user.role = "admin"
       IN IF ~isAdmin /\ currentUserId # requestedUserId
            THEN next(r, ForbiddenError("You can only access your own resources"))
            ELSE next(r, NULL)

\* Faulty variant: the ObjectId itself is compared with the parameter, and
\* an object is never identical to a string
requireOwnershipOrAdmin_ObjectIdCompare(paramField, r) ==
  IF r.user = UNDEFINED
    THEN next(r, AuthError("Authentication required"))
  ELSE LET isAdmin == r.user.role = "admin"
       IN IF ~isAdmin
            THEN next(r, ForbiddenError("You can only access your own resources"))
            ELSE next(r, NULL)

requireOwnershipOrAdmin(paramField, r) ==
  IF r.user = UNDEFINED
    THEN next(r, AuthError("Authentication required"))
  ELSE LET requestedUserId == r.params[paramField]
           currentUserId == toString(r.user._id)
           isAdmin == r.user.role = "admin"
       IN IF ~isAdmin /\ currentUserId # requestedUserId
            THEN next(r, ForbiddenError("You can only access your own resources"))
            ELSE next(r, NULL)

\* Faulty variant: a token that does not resolve is denied, as in requireAuth
optionalAuth_Deny(r, coll, t) ==
  LET decoded == extractToken(r.headers.authorization, t).ret
  IN IF IsThrown(decoded) \/ decoded = NULL
       THEN next(r, AuthError("Invalid or expired token"))
     ELSE LET user == User_findById(coll, decoded.id)
          IN IF IsThrown(user)
               THEN next(r, AuthError("Authentication failed"))
             ELSE IF user = NULL
               THEN next(r, AuthError("User no longer exists"))
             ELSE next([r EXCEPT !.user = user, !.tokenPayload = decoded],
                       NULL)

\* try { attach the user if the token resolves } catch {}; next()
optionalAuth(r, coll, t) ==
  LET decoded == extractToken(r.headers.authorization, t).ret
  IN IF IsThrown(decoded) \/ decoded = NULL
       THEN next(r, NULL)
     ELSE LET user == User_findById(coll, decoded.id)
          IN IF IsThrown(user) \/ user = NULL
               THEN next(r, NULL)
               ELSE next([r EXCEPT !.user = user, !.tokenPayload = decoded],
                         NULL)

----------------------------------------------------------------------------
(* features/user/userRoutes.js, features/feedback/feedbackRoutes.js: the    *)
(* authentication and authorization middleware of each route, in the order *)
(* the route lists them.  Rate limiters and validators, which read neither *)
(* req.user nor the token, are left out.                                   *)

Routes == {"GET /api/user/me", "GET /api/user"}

\* Access: Public
PublicRoutes == {"POST /api/user/login"}

\* Access: Authenticated user
UserRoutes == {"GET /api/user/me", "POST /api/feedback"}

\* Access: Admin only
AdminRoutes ==
  {"GET /api/user", "POST /api/user", "GET /api/user/:id",
   "PATCH /api/user/:id", "DELETE /api/user/:id", "GET /api/feedback",
   "GET /api/feedback/:id", "PATCH /api/feedback/:id",
   "DELETE /api/feedback/:id"}

\* Access: User (own feedback) or Admin
OwnerRoutes == {"GET /api/feedback/user/:userId"}

AllRoutes == PublicRoutes \cup UserRoutes \cup AdminRoutes \cup OwnerRoutes

\* The middleware of auth.js, each of which can also be mounted alone
Guards == {"requireAuth", "requireAdmin", "requireOwnershipOrAdmin",
           "optionalAuth"}

\* Faulty variant: requireAdmin is left out of the user-deleting route
Chain_DeleteUnguarded(route) ==
  CASE route \in PublicRoutes -> <<>>
    [] route \in UserRoutes -> <<"requireAuth">>
    [] route = "DELETE /api/user/:id" -> <<"requireAuth">>
    [] route \in AdminRoutes -> <<"requireAuth", "requireAdmin">>
    [] route \in OwnerRoutes -> <<"requireAuth", "requireOwnershipOrAdmin">>
    [] route \in Guards -> <<route>>

Chain(route) ==
  CASE route \in PublicRoutes -> <<>>
    [] route \in UserRoutes -> <<"requireAuth">>
    [] route \in AdminRoutes -> <<"requireAuth", "requireAdmin">>
    [] route \in OwnerRoutes -> <<"requireAuth", "requireOwnershipOrAdmin">>
    [] route \in Guards -> <<route>>

Middleware(name, r, coll, t) ==
  CASE name = "requireAuth" -> requireAuth(r, coll, t)
    [] name = "requireAdmin" -> requireAdmin(r)
    [] name = "requireOwnershipOrAdmin" -> requireOwnershipOrAdmin("userId", r)
    [] name = "optionalAuth" -> optionalAuth(r, coll, t)

\* express runs the chain in order; an error skips the rest and the handler
RECURSIVE Dispatch(_, _, _, _)
Dispatch(chain, r, coll, t) ==
  IF chain = <<>> THEN [r EXCEPT !.handled = TRUE]
  ELSE LET r1 == Middleware(Head(chain), r, coll, t)
       IN IF r1.err # NULL THEN r1 ELSE Dispatch(Tail(chain), r1, coll, t)

NoParams == [userId |-> UNDEFINED]

NewRequest(route, authHeader, params) ==
  [route |-> route, headers |-> [authorization |-> authHeader],
   params |-> params, user |-> UNDEFINED, tokenPayload |-> UNDEFINED,
   err |-> NULL, nexts |-> 0, handled |-> FALSE]

----------------------------------------------------------------------------
(* State *)

Idle == [pc |-> "idle"]
NoResult == [op |-> "none"]
NoRequest == [route |-> "none"]
NoExtract == [authorization |-> UNDEFINED, out |-> UNDEFINED]
NoClient == [init |-> "none"]
Seed ==
  [_id |-> 1, email |-> "admin@test.com", password |-> P1, role |-> "admin",
   isVerified |-> TRUE]

Init ==
  /\ users = (1 :> Seed)
  /\ nextId = 2
  /\ now = 0
  /\ held = {}
  /\ proc = [p \in Procs |-> Idle]
  /\ res = NoResult
  /\ req = NoRequest
  /\ ext = NoExtract
  /\ env = Configured
  /\ conn = "connected"
  /\ feedbacks = <<>>
  /\ client = NoClient

----------------------------------------------------------------------------
(* features/user/userService.js *)

Returned(op, value, info) ==
  [op |-> op, err |-> NULL, value |-> value, info |-> info]
Threw(op, err, info) ==
  [op |-> op, err |-> err, value |-> UNDEFINED, info |-> info]

getAllUsers ==
  /\ LET found == findAll(users)
     IN res' = Returned("getAllUsers",
                        [count |-> Cardinality(DOMAIN found), users |-> found],
                        [id |-> 0])
  /\ req' = NoRequest
  /\ UNCHANGED <<users, nextId, now, held, proc, ext, env, conn, feedbacks, client>>

getUserById(id) ==
  /\ LET user == findById(users, id)
     IN IF user = NULL
          THEN res' = Threw("getUserById", NotFoundError("User"), [id |-> id])
          ELSE res' = Returned("getUserById", user, [id |-> id])
  /\ req' = NoRequest
  /\ UNCHANGED <<users, nextId, now, held, proc, ext, env, conn, feedbacks, client>>

\* createUser after the existence check: hash, then create; the unique index
\* on email rejects a document whose email another account already has
createAccount(email, password, role, isVerified, salt) ==
  IF hashThrows(salt)
    THEN /\ res' = Threw("createUser", hashPassword(password, salt),
                         [email |-> email])
         /\ UNCHANGED <<users, nextId>>
  ELSE IF DuplicateKey(users, nextId, email)
    THEN /\ res' = Threw("createUser", DuplicateKeyError("email"),
                         [email |-> email])
         /\ UNCHANGED <<users, nextId>>
    ELSE /\ nextId <= MaxUsers
         /\ LET data == [email |-> email,
                         password |-> hashPassword(password, salt),
                         role |-> IF role = UNDEFINED THEN "user" ELSE role.v,
                         isVerified |-> IF isVerified = UNDEFINED THEN FALSE
                                        ELSE isVerified.v]
                coll == create(users, nextId, data)
            IN /\ users' = coll
               /\ res' = Returned("createUser", NoPassword(coll[nextId]),
                                  [email |-> email])
         /\ nextId' = nextId + 1

createUser(email, password, role, isVerified, salt) ==
  /\ IF existsByEmail(users, email)
       THEN /\ res' = Threw("createUser",
                            ConflictError("User with this email already exists"),
                            [email |-> email])
            /\ UNCHANGED <<users, nextId>>
       ELSE createAccount(email, password, role, isVerified, salt)
  /\ req' = NoRequest
  /\ UNCHANGED <<now, held, proc, ext, env, conn, feedbacks, client>>

\* createUser up to its first await: the existence check
createExists(p, email, password, role, isVerified) ==
  /\ proc[p] = Idle
  /\ IF existsByEmail(users, email)
       THEN /\ res' = Threw("createUser",
                            ConflictError("User with this email already exists"),
                            [email |-> email])
            /\ UNCHANGED proc
       ELSE /\ proc' = [proc EXCEPT ![p] =
                          [pc |-> "createUser", email |-> email,
                           password |-> password, role |-> role,
                           isVerified |-> isVerified]]
            /\ res' = NoResult
  /\ req' = NoRequest
  /\ UNCHANGED <<users, nextId, now, held, ext, env, conn, feedbacks, client>>

\* createUser after the existence check, on the store as it is by then
createWrite(p, salt) ==
  /\ proc[p].pc = "createUser"
  /\ createAccount(proc[p].email, proc[p].password, proc[p].role,
                   proc[p].isVerified, salt)
  /\ proc' = [proc EXCEPT ![p] = Idle]
  /\ req' = NoRequest
  /\ UNCHANGED <<now, held, ext, env, conn, feedbacks, client>>

\* Faulty variant: the update document is passed on as it came
updateUser_RawPassword(id, updateData, salt) ==
  /\ LET data == updateData
         info == [id |-> id]
     IN IF updateData.password # UNDEFINED /\ hashThrows(salt)
          THEN /\ res' = Threw("updateUser",
                               hashPassword(updateData.password.v, salt), info)
               /\ UNCHANGED users
        ELSE IF id \notin DOMAIN users
          THEN /\ res' = Threw("updateUser", NotFoundError("User"), info)
               /\ UNCHANGED users
        ELSE IF data.email # UNDEFINED /\ DuplicateKey(users, id, data.email.v)
          THEN /\ res' = Threw("updateUser",
                               DuplicateKeyError("email"), info)
               /\ UNCHANGED users
        ELSE /\ users' = update(users, id, data)
             /\ res' = Returned("updateUser", findById(users', id), info)
  /\ req' = NoRequest
  /\ UNCHANGED <<nextId, now, held, proc, ext, env, conn, feedbacks, client>>

updateUser(id, updateData, salt) ==
  /\ LET data == [updateData EXCEPT
                    !.password = IF @ = UNDEFINED THEN UNDEFINED
                                 ELSE Some(hashPassword(@.v, salt))]
         info == [id |-> id]
     IN IF updateData.password # UNDEFINED /\ hashThrows(salt)
          THEN /\ res' = Threw("updateUser",
                               hashPassword(updateData.password.v, salt), info)
               /\ UNCHANGED users
        ELSE IF id \notin DOMAIN users
          THEN /\ res' = Threw("updateUser", NotFoundError("User"), info)
               /\ UNCHANGED users
        ELSE IF data.email # UNDEFINED /\ DuplicateKey(users, id, data.email.v)
          THEN /\ res' = Threw("updateUser",
                               DuplicateKeyError("email"), info)
               /\ UNCHANGED users
        ELSE /\ users' = update(users, id, data)
             /\ res' = Returned("updateUser", findById(users', id), info)
  /\ req' = NoRequest
  /\ UNCHANGED <<nextId, now, held, proc, ext, env, conn, feedbacks, client>>

deleteUser(id) ==
  /\ IF id \notin DOMAIN users
       THEN /\ res' = Threw("deleteUser", NotFoundError("User"), [id |-> id])
            /\ UNCHANGED users
       ELSE /\ users' = delete(users, id)
            /\ res' = Returned("deleteUser",
                               [message |-> "User deleted successfully",
                                id |-> id], [id |-> id])
  /\ req' = NoRequest
  /\ UNCHANGED <<nextId, now, held, proc, ext, env, conn, feedbacks, client>>

\* Faulty variant: a legacy secret is migrated before the comparison is looked at
checkPassword_MigrateFirst(user, password, salt) ==
  LET hashed == isBcryptHash(user.password)
      passwordMatches == IF hashed
                           THEN comparePassword(password, user.password)
                           ELSE user.password = password
      token == generateToken(user, now)
      info == [path |-> IF hashed THEN "bcrypt" ELSE "legacy",
               password |-> password, user |-> user]
  IN /\ users' = IF ~hashed
                   THEN updatePassword(users, user._id,
                                       hashPassword(password, salt))
                   ELSE users
     /\ IF ~passwordMatches
          THEN /\ res' = Threw("login",
                               AuthError("Invalid email or password"), info)
        ELSE IF IsThrown(token)
          THEN /\ res' = Threw("login", token, info)
          ELSE /\ res' = Returned("login",
                                  [message |-> "Login successful",
                                   token |-> token,
                                   user |-> [id |-> user._id,
                                             email |-> user.email,
                                             role |-> user.role,
                                             isVerified |-> user.isVerified]],
                                  info)

\* Faulty variant: the migration saves the document it read, and the save
\* is refused when the stored document has changed since
checkPassword_VersionedSave(user, password, salt) ==
  LET hashed == isBcryptHash(user.password)
      passwordMatches == IF hashed
                           THEN comparePassword(password, user.password)
                           ELSE user.password = password
      migrate == ~hashed /\ passwordMatches
      stale == user._id \in DOMAIN users /\ users[user._id] # user
      token == generateToken(user, now)
      info == [path |-> IF hashed THEN "bcrypt" ELSE "legacy",
               password |-> password, user |-> user]
  IN /\ users' = IF migrate /\ ~stale
                   THEN updatePassword(users, user._id,
                                       hashPassword(password, salt))
                   ELSE users
     /\ IF ~passwordMatches
          THEN /\ res' = Threw("login",
                               AuthError("Invalid email or password"), info)
        ELSE IF migrate /\ stale
          THEN /\ res' = Threw("login",
                               Thrown("VersionError", "No matching document"),
                               info)
        ELSE IF IsThrown(token)
          THEN /\ res' = Threw("login", token, info)
          ELSE /\ res' = Returned("login",
                                  [message |-> "Login successful",
                                   token |-> token,
                                   user |-> [id |-> user._id,
                                             email |-> user.email,
                                             role |-> user.role,
                                             isVerified |-> user.isVerified]],
                                  info)

\* Faulty variant: a migration whose hashing failed is skipped and the
\* login goes on
checkPassword_SkipFailedMigration(user, password, salt) ==
  LET hashed == isBcryptHash(user.password)
      passwordMatches == IF hashed
                           THEN comparePassword(password, user.password)
                           ELSE user.password = password
      migrate == ~hashed /\ passwordMatches
      token == generateToken(user, now)
      info == [path |-> IF hashed THEN "bcrypt" ELSE "legacy",
               password |-> password, user |-> user]
  IN /\ users' = IF migrate /\ ~hashThrows(salt)
                   THEN updatePassword(users, user._id,
                                       hashPassword(password, salt))
                   ELSE users
     /\ IF ~passwordMatches
          THEN /\ res' = Threw("login",
                               AuthError("Invalid email or password"), info)
        ELSE IF IsThrown(token)
          THEN /\ res' = Threw("login", token, info)
          ELSE /\ res' = Returned("login",
                                  [message |-> "Login successful",
                                   token |-> token,
                                   user |-> [id |-> user._id,
                                             email |-> user.email,
                                             role |-> user.role,
                                             isVerified |-> user.isVerified]],
                                  info)

\* login from the password check on, for the account as findByEmail read it
checkPassword(user, password, salt) ==
  LET hashed == isBcryptHash(user.password)
      passwordMatches == IF hashed
                           THEN comparePassword(password, user.password)
                           ELSE user.password = password
      migrate == ~hashed /\ passwordMatches
      token == generateToken(user, now)
      info == [path |-> IF hashed THEN "bcrypt" ELSE "legacy",
               password |-> password, user |-> user]
  IN /\ users' = IF migrate /\ ~hashThrows(salt)
                   THEN updatePassword(users, user._id,
                                       hashPassword(password, salt))
                   ELSE users
     /\ IF migrate /\ hashThrows(salt)
          THEN /\ res' = Threw("login", hashPassword(password, salt), info)
        ELSE IF ~passwordMatches
          THEN /\ res' = Threw("login",
                               AuthError("Invalid email or password"), info)
        ELSE IF IsThrown(token)
          THEN /\ res' = Threw("login", token, info)
          ELSE /\ res' = Returned("login",
                                  [message |-> "Login successful",
                                   token |-> token,
                                   user |-> [id |-> user._id,
                                             email |-> user.email,
                                             role |-> user.role,
                                             isVerified |-> user.isVerified]],
                                  info)

\* login, run without another operation in between
login(email, password, salt) ==
  /\ LET user == findByEmail(users, email)
     IN IF user = NULL
          THEN /\ res' = Threw("login", AuthError("Invalid email or password"),
                               [path |-> "not found", password |-> password])
               /\ UNCHANGED users
          ELSE checkPassword(user, password, salt)
  /\ req' = NoRequest
  /\ UNCHANGED <<nextId, now, held, proc, ext, env, conn, feedbacks, client>>

\* Faulty variant: an unknown email is reported as such
loginFind_UserNotFound(p, email, password) ==
  /\ proc[p] = Idle
  /\ LET user == findByEmail(users, email)
     IN IF user = NULL
          THEN /\ res' = Threw("login", AuthError("User not found"),
                               [path |-> "not found", password |-> password])
               /\ UNCHANGED proc
          ELSE /\ proc' = [proc EXCEPT ![p] =
                             [pc |-> "login", password |-> password,
                              user |-> user]]
               /\ res' = NoResult
  /\ req' = NoRequest
  /\ UNCHANGED <<users, nextId, now, held, ext, env, conn, feedbacks, client>>

\* login up to its first await: the account is read by email
loginFind(p, email, password) ==
  /\ proc[p] = Idle
  /\ LET user == findByEmail(users, email)
     IN IF user = NULL
          THEN /\ res' = Threw("login", AuthError("Invalid email or password"),
                               [path |-> "not found", password |-> password])
               /\ UNCHANGED proc
          ELSE /\ proc' = [proc EXCEPT ![p] =
                             [pc |-> "login", password |-> password,
                              user |-> user]]
               /\ res' = NoResult
  /\ req' = NoRequest
  /\ UNCHANGED <<users, nextId, now, held, ext, env, conn, feedbacks, client>>

\* login after the await, while other operations ran in between
loginCheck(p, salt) ==
  /\ proc[p].pc = "login"
  /\ checkPassword(proc[p].user, proc[p].password, salt)
  /\ proc' = [proc EXCEPT ![p] = Idle]
  /\ req' = NoRequest
  /\ UNCHANGED <<nextId, now, held, ext, env, conn, feedbacks, client>>

----------------------------------------------------------------------------
(* Requests and time *)

\* The tokens a client has: the one it kept and the one login just returned
Tokens ==
  held \cup (IF res.op = "login" /\ res.err = NULL THEN {res.value.token}
             ELSE {})

\* What a client can put after "Bearer ": a token the server issued, the
\* same payload signed with another key, or a word that is no JWT
TokenWords ==
  Tokens \cup {Jwt(tok.payload, OtherKey) : tok \in Tokens} \cup {Word("abc")}

Headers ==
  {UNDEFINED}
    \cup {Str(<<Word("Bearer"), SP, x>>) : x \in TokenWords}
    \cup {Str(<<Word("Token"), SP, x>>) : x \in Tokens}

\* The client keeps the token of the login that just returned, in place of
\* the one it had.  The server keeps no record of the tokens it issued, and
\* what a request meets depends on the one token it presents, so one kept
\* token reaches every combination of store, clock and token.
keepToken ==
  /\ res.op = "login"
  /\ res.err = NULL
  /\ held' = {res.value.token}
  /\ res' = NoResult
  /\ req' = NoRequest
  /\ UNCHANGED <<users, nextId, now, proc, ext, env, conn, feedbacks, client>>

request(route, authHeader, params) ==
  /\ req' = Dispatch(Chain(route), NewRequest(route, authHeader, params),
                     users, now)
  /\ res' = NoResult
  /\ UNCHANGED <<users, nextId, now, held, proc, ext, env, conn, feedbacks, client>>

tick ==
  /\ now < MaxTime
  /\ now' = now + 1
  /\ res' = NoResult
  /\ req' = NoRequest
  /\ UNCHANGED <<users, nextId, held, proc, ext, env, conn, feedbacks, client>>

\* The bodies of an update: one field at a time
NoUpdate ==
  [email |-> UNDEFINED, password |-> UNDEFINED, role |-> UNDEFINED,
   isVerified |-> UNDEFINED]

UpdateData ==
  {[NoUpdate EXCEPT !.email = Some("Admin@Test.com")]}
    \cup {[NoUpdate EXCEPT !.password = Some(pw)] : pw \in NewPasswords}
    \cup {[NoUpdate EXCEPT !.role = Some(r)] : r \in Roles}

\* The salt is drawn only where the operation hashes
SaltsFor(d) == IF d.password = UNDEFINED THEN {"s1"} ELSE Salts

CreateUser ==
  \E e \in EmailInputs, pw \in NewPasswords, r \in Optional({"admin"}),
     v \in {UNDEFINED}, s \in Salts : createUser(e, pw, r, v, s)
UpdateUser ==
  \E id \in 1..MaxUsers, d \in UpdateData :
    \E s \in SaltsFor(d) : updateUser(id, d, s)
DeleteUser == \E id \in 1..MaxUsers : deleteUser(id)
Login ==
  \E e \in EmailInputs, pw \in LoginPasswords, s \in Salts : login(e, pw, s)
LoginFind ==
  \E p \in Procs, e \in EmailInputs, pw \in LoginPasswords : loginFind(p, e, pw)
LoginCheck == \E p \in Procs, s \in Salts : loginCheck(p, s)
Request == \E rt \in Routes, h \in Headers : request(rt, h, NoParams)

\* Operations run one at a time, requests and the clock included
Next ==
  \/ CreateUser
  \/ UpdateUser
  \/ DeleteUser
  \/ Login
  \/ Request
  \/ keepToken
  \/ tick

Spec == Init /\ [][Next]_vars

\* The account operations with a login's await interleaved with the others
NextLogin ==
  \/ CreateUser
  \/ UpdateUser
  \/ DeleteUser
  \/ LoginFind
  \/ LoginCheck

SpecLogin == Init /\ [][NextLogin]_vars

----------------------------------------------------------------------------
(* extractToken on its own, over every short header *)

SeedToken == generateToken(Seed, 0)

HeaderAtoms ==
  {SP, Word("Bearer"), Word("bearer"), Word("Token"), Word("abc"),
   SeedToken, Jwt(SeedToken.payload, OtherKey)}

AllHeaders ==
  {UNDEFINED} \cup
    {Str(atoms) : atoms \in UNION {[1..n -> HeaderAtoms] : n \in 0..MaxHeaderLen}}

InitExtract ==
  /\ env = Configured
  /\ conn = "connected"
  /\ feedbacks = <<>>
  /\ client = NoClient
  /\ users = (1 :> Seed)
  /\ nextId = 2
  /\ now \in 0..MaxTime
  /\ held = {}
  /\ proc = [p \in Procs |-> Idle]
  /\ res = NoResult
  /\ req = NoRequest
  /\ ext \in {[authorization |-> h, out |-> UNDEFINED] : h \in AllHeaders}

extract ==
  /\ ext.out = UNDEFINED
  /\ ext' = [ext EXCEPT !.out = extractToken(ext.authorization, now)]
  /\ UNCHANGED <<users, nextId, now, held, proc, res, req, env, conn, feedbacks, client>>

NextExtract == extract

SpecExtract == InitExtract /\ [][NextExtract]_vars

----------------------------------------------------------------------------
(* The gate on its own: one request, through a route or through one        *)
(* middleware mounted alone, against each store, clock and connection      *)

EmailOf == <<"admin@test.com", "a@b.com", "c@d.com", "e@f.com">>

\* The account with this id as the operations leave it: the V1 admin, or an
\* account made by createUser, with the role an update gave it
GateAccount(id, role) ==
  IF id = Seed._id
    THEN [Seed EXCEPT !.role = role]
    ELSE [_id |-> id, email |-> EmailOf[id],
          password |-> hashPassword(P2, "s1"), role |-> role,
          isVerified |-> FALSE]

GateStores ==
  {[id \in DOMAIN roleOf |-> GateAccount(id, roleOf[id])] :
     roleOf \in UNION {[D -> Roles] : D \in SUBSET (1..MaxUsers)}}

\* The tokens logins at time 0 returned, for each account and role it had
GateTokens ==
  {generateToken(GateAccount(id, role), 0) : id \in 1..MaxUsers, role \in Roles}

GateHeaders ==
  {UNDEFINED, Str(<<Word("Bearer"), SP, Word("abc")>>)}
    \cup {Str(<<Word("Bearer"), SP, tok>>) : tok \in GateTokens}
    \cup {Str(<<Word("Bearer"), SP, Jwt(tok.payload, OtherKey)>>) :
            tok \in GateTokens}
    \cup {Str(<<Word("Token"), SP, tok>>) : tok \in GateTokens}

\* The :userId of a request: an id as toString spells it, or in upper case
OwnerParams ==
  {[userId |-> toString(id)] : id \in 1..MaxUsers}
    \cup {[userId |-> UpperCase(Seed._id)]}

ParamsOf(route) ==
  IF route \in OwnerRoutes \cup {"requireOwnershipOrAdmin"}
    THEN OwnerParams
    ELSE {NoParams}

\* What earlier middleware left in req.user when a guard is mounted alone
UsersBefore(guard) ==
  IF guard \in {"requireAdmin", "requireOwnershipOrAdmin"}
    THEN {UNDEFINED} \cup {NoPassword(users[id]) : id \in DOMAIN users}
    ELSE {UNDEFINED}

HeadersOf(guard) ==
  IF guard \in {"requireAuth", "optionalAuth"} THEN GateHeaders
  ELSE {UNDEFINED}

InitGate ==
  /\ env = Configured
  /\ conn \in {"connected", "down"}
  /\ feedbacks = <<>>
  /\ client = NoClient
  /\ users \in GateStores
  /\ nextId = MaxUsers + 1
  /\ now \in 0..MaxTime
  /\ held = {}
  /\ proc = [p \in Procs |-> Idle]
  /\ res = NoResult
  /\ req = NoRequest
  /\ ext = NoExtract

\* express hands the request to the chain; the handler follows the chain
handle(route, r) ==
  /\ req = NoRequest
  /\ req' = Dispatch(Chain(route), r, users, now)
  /\ UNCHANGED <<users, nextId, now, held, proc, res, ext, env, conn, feedbacks, client>>

Handle ==
  \E route \in AllRoutes, h \in GateHeaders :
    \E pm \in ParamsOf(route) : handle(route, NewRequest(route, h, pm))

Mount ==
  \E guard \in Guards :
    \E h \in HeadersOf(guard), pm \in ParamsOf(guard), u \in UsersBefore(guard) :
      handle(guard, [NewRequest(guard, h, pm) EXCEPT !.user = u])

NextGate ==
  \/ Handle
  \/ Mount

SpecGate == InitGate /\ [][NextGate]_vars

----------------------------------------------------------------------------
(* A client's session: it logs in, keeps the token and presents it while   *)
(* the account is updated or deleted and the clock advances                *)

SessionRoutes ==
  {"GET /api/user/me", "GET /api/user", "GET /api/feedback/user/:userId"}

SessionHeaders == {Str(<<Word("Bearer"), SP, tok>>) : tok \in Tokens}

Visit ==
  \E rt \in SessionRoutes, h \in SessionHeaders :
    \E pm \in ParamsOf(rt) : request(rt, h, pm)

NextSession ==
  \/ Login
  \/ keepToken
  \/ CreateUser
  \/ UpdateUser
  \/ DeleteUser
  \/ Visit
  \/ tick

SpecSession == Init /\ [][NextSession]_vars

----------------------------------------------------------------------------
(* The server running without JWT_SECRET in its environment *)

\* What loginUser answers for the result login gave it: res.json(result),
\* or next(error) and with it the error handler's response
loginUser(r) ==
  IF r.err = NULL THEN [status |-> 200, body |-> r.value]
                  ELSE errorHandler(r.err)

InitNoKey ==
  /\ users = (1 :> Seed)
  /\ nextId = 2
  /\ now = 0
  /\ held = {}
  /\ proc = [p \in Procs |-> Idle]
  /\ res = NoResult
  /\ req = NoRequest
  /\ ext = NoExtract
  /\ env \in {[KeyAbsent EXCEPT !.NODE_ENV = e] :
                e \in Optional({"production", "development"})}
  /\ conn = "connected"
  /\ feedbacks = <<>>
  /\ client = NoClient

NextNoKey ==
  \/ CreateUser
  \/ UpdateUser
  \/ DeleteUser
  \/ Login

SpecNoKey == InitNoKey /\ [][NextNoKey]_vars

----------------------------------------------------------------------------
(* The operations that hash, with a hashing backend that can fail *)

\* What genSalt can give an operation: a salt, or a failure
HashOutcomes == Salts \cup {GenSaltThrows}

\* The passwords a caller supplies: a plain one and one that reads as a hash
SuppliedPasswords == NewPasswords \cup {PLooksHashed}

CreateUserHashing ==
  \E e \in EmailInputs, pw \in SuppliedPasswords, r \in Optional({"admin"}),
     s \in HashOutcomes : createUser(e, pw, r, UNDEFINED, s)
UpdateUserHashing ==
  \E id \in 1..MaxUsers, pw \in SuppliedPasswords, s \in HashOutcomes :
    updateUser(id, [NoUpdate EXCEPT !.password = Some(pw)], s)
LoginHashing ==
  \E e \in EmailInputs, pw \in LoginPasswords, s \in HashOutcomes :
    login(e, pw, s)

NextHashFault ==
  \/ CreateUserHashing
  \/ UpdateUserHashing
  \/ LoginHashing
  \/ DeleteUser

SpecHashFault == Init /\ [][NextHashFault]_vars

----------------------------------------------------------------------------
(* features/feedback: creating feedback and reading a user's feedback *)

\* The JSON bodies a client posts; a body may carry a userId of its own
FeedbackBodies ==
  [message : Optional({"hello"}), category : {UNDEFINED},
   status : Optional({"reviewed"}), userId : Optional(1..MaxUsers)]

\* validateCreateFeedback: the message is required; a status is optional
validateCreateFeedback(r, body) ==
  IF body.message = UNDEFINED
    THEN [r EXCEPT !.err = ValidationError("Validation failed"),
                   !.nexts = @ + 1, !.handled = FALSE]
    ELSE r

\* FeedbackService.createFeedback: the document the repository creates
FeedbackService_createFeedback(id, feedbackData) ==
  [_id |-> id,
   userId |-> feedbackData.userId.v,
   message |-> feedbackData.message.v,
   category |-> IF feedbackData.category = UNDEFINED THEN "general"
                ELSE feedbackData.category.v,
   status |-> IF feedbackData.status = UNDEFINED THEN "pending"
              ELSE feedbackData.status.v]

\* Faulty variant: the body is spread over the authenticated id
createFeedback_BodyWins(r, body) ==
  LET feedbackData == IF body.userId = UNDEFINED
                        THEN [body EXCEPT !.userId = Some(r.user._id)]
                        ELSE body
      feedback == FeedbackService_createFeedback(Len(feedbacks) + 1,
                                                 feedbackData)
  IN /\ feedbacks' = Append(feedbacks, feedback)
     /\ res' = Returned("createFeedback", feedback, [body |-> body])

\* The createFeedback handler: {...req.body, userId: req.user._id}
createFeedback(r, body) ==
  LET feedbackData == [body EXCEPT !.userId = Some(r.user._id)]
      feedback == FeedbackService_createFeedback(Len(feedbacks) + 1,
                                                 feedbackData)
  IN /\ feedbacks' = Append(feedbacks, feedback)
     /\ res' = Returned("createFeedback", feedback, [body |-> body])

\* POST /api/feedback: requireAuth, validateCreateFeedback, createFeedback
postFeedback(authHeader, body) ==
  /\ Len(feedbacks) < MaxFeedback
  /\ LET route == "POST /api/feedback"
         r0 == Dispatch(Chain(route), NewRequest(route, authHeader, NoParams),
                        users, now)
         r == IF r0.err = NULL THEN validateCreateFeedback(r0, body) ELSE r0
     IN /\ req' = r
        /\ IF r.err = NULL
             THEN createFeedback(r, body)
             ELSE /\ res' = NoResult
                  /\ UNCHANGED feedbacks
  /\ UNCHANGED <<users, nextId, now, held, proc, ext, env, conn, client>>

\* Faulty variant: the service lets only the owner through
FeedbackService_getFeedbackByUser_OwnerOnly(userId, currentUser) ==
  LET isOwner == toString(currentUser._id) = userId
      found == SelectSeq(feedbacks, LAMBDA f : toString(f.userId) = userId)
  IN IF ~isOwner
       THEN ForbiddenError("You can only view your own feedback")
       ELSE [count |-> Len(found), feedback |-> found]

\* FeedbackService.getFeedbackByUser: what it throws, or what it returns
FeedbackService_getFeedbackByUser(userId, currentUser) ==
  LET isOwner == toString(currentUser._id) = userId
      isAdmin == currentUser.role = "admin"
      found == SelectSeq(feedbacks, LAMBDA f : toString(f.userId) = userId)
  IN IF ~isOwner /\ ~isAdmin
       THEN ForbiddenError("You can only view your own feedback")
       ELSE [count |-> Len(found), feedback |-> found]

\* GET /api/feedback/user/:userId: requireAuth, requireOwnershipOrAdmin,
\* then the handler calls the service with req.params.userId and req.user
getFeedbackByUser(authHeader, params) ==
  /\ LET route == "GET /api/feedback/user/:userId"
         r == Dispatch(Chain(route), NewRequest(route, authHeader, params),
                       users, now)
         result == FeedbackService_getFeedbackByUser(r.params.userId, r.user)
     IN /\ req' = r
        /\ res' = IF ~r.handled THEN NoResult
                  ELSE IF "isOperational" \in DOMAIN result
                    THEN Threw("getFeedbackByUser", result, [path |-> "none"])
                    ELSE Returned("getFeedbackByUser", result,
                                  [path |-> "none"])
  /\ UNCHANGED <<users, nextId, now, held, proc, ext, env, conn, feedbacks, client>>

PostFeedback ==
  \E h \in SessionHeaders \cup {UNDEFINED}, body \in FeedbackBodies :
    postFeedback(h, body)
GetFeedbackByUser ==
  \E h \in SessionHeaders, pm \in OwnerParams : getFeedbackByUser(h, pm)

NextFeedback ==
  \/ CreateUser
  \/ Login
  \/ keepToken
  \/ PostFeedback
  \/ GetFeedbackByUser

SpecFeedback == Init /\ [][NextFeedback]_vars

----------------------------------------------------------------------------
(* client: AuthProvider's state and ProtectedRoute *)

\* The users the server can answer with, and the tokens it can issue
ClientUsers ==
  {[id |-> 1, email |-> "admin@test.com", role |-> "admin"],
   [id |-> 2, email |-> "a@b.com", role |-> "user"]}
ClientTokens == {Some("t0"), Some("t1")}

\* localStorage as a previous visit left it
Storages ==
  [token : {NULL} \cup ClientTokens, user : {NULL} \cup ClientUsers]

\* useState: user null, token from localStorage, loading true; the effect
\* has not run and no login is in flight
InitClient ==
  /\ users = (1 :> Seed)
  /\ nextId = 2
  /\ now = 0
  /\ held = {}
  /\ proc = [p \in Procs |-> Idle]
  /\ res = NoResult
  /\ req = NoRequest
  /\ ext = NoExtract
  /\ env = Configured
  /\ conn = "connected"
  /\ feedbacks = <<>>
  /\ \E ls \in Storages :
       client = [user |-> NULL, token |-> ls.token, loading |-> TRUE,
                 localStorage |-> ls, init |-> "pending", login |-> "idle"]

ClientStep(op) ==
  /\ res' = [op |-> op]
  /\ UNCHANGED <<users, nextId, now, held, proc, req, ext, env, conn,
                 feedbacks>>

\* logout's assignments, applied to a client state
loggedOut(c) ==
  [c EXCEPT !.localStorage = [token |-> NULL, user |-> NULL],
            !.token = NULL, !.user = NULL]

logout ==
  /\ client' = loggedOut(client)
  /\ ClientStep("logout")

\* initAuth up to its await: with a stored token and user it takes them
\* over and asks the server for the current user; otherwise it is done
initAuth ==
  /\ client.init = "pending"
  /\ client' =
       IF client.localStorage.token # NULL /\ client.localStorage.user # NULL
         THEN [client EXCEPT !.token = client.localStorage.token,
                             !.user = client.localStorage.user,
                             !.init = "verifying"]
         ELSE [client EXCEPT !.loading = FALSE, !.init = "done"]
  /\ ClientStep("initAuth")

\* getCurrentUser answered: the user is replaced by the server's
initAuthResolved(currentUser) ==
  /\ client.init = "verifying"
  /\ client' = [client EXCEPT !.user = currentUser,
                              !.localStorage.user = currentUser,
                              !.loading = FALSE, !.init = "done"]
  /\ ClientStep("initAuth resolved")

\* getCurrentUser failed: logout, then loading ends
initAuthRejected ==
  /\ client.init = "verifying"
  /\ client' = [loggedOut(client) EXCEPT !.loading = FALSE, !.init = "done"]
  /\ ClientStep("initAuth rejected")

\* login up to its await
loginStart ==
  /\ client.login = "idle"
  /\ client' = [client EXCEPT !.loading = TRUE, !.login = "awaiting"]
  /\ ClientStep("login")

loginResolved(newToken, newUser) ==
  /\ client.login = "awaiting"
  /\ client' = [client EXCEPT
                  !.localStorage = [token |-> newToken, user |-> newUser],
                  !.token = newToken, !.user = newUser,
                  !.loading = FALSE, !.login = "idle"]
  /\ ClientStep("login resolved")

loginRejected ==
  /\ client.login = "awaiting"
  /\ client' = [client EXCEPT !.loading = FALSE, !.login = "idle"]
  /\ ClientStep("login rejected")

isAdmin(c) == c.user # NULL /\ c.user.role = "admin"
isAuthenticated(c) == c.token # NULL /\ c.user # NULL

\* Faulty variant: the loading state is not looked at
ProtectedRoute_NoLoadingCheck(c, adminOnly) ==
  IF ~isAuthenticated(c) THEN "Navigate /login"
  ELSE IF adminOnly /\ ~isAdmin(c) THEN "Navigate /dashboard"
  ELSE "children"

\* What ProtectedRoute renders for the auth state c
ProtectedRoute(c, adminOnly) ==
  IF c.loading THEN "Loading..."
  ELSE IF ~isAuthenticated(c) THEN "Navigate /login"
  ELSE IF adminOnly /\ ~isAdmin(c) THEN "Navigate /dashboard"
  ELSE "children"

InitAuthResolved == \E u \in ClientUsers : initAuthResolved(u)
LoginResolved ==
  \E t \in ClientTokens, u \in ClientUsers : loginResolved(t, u)

NextClient ==
  \/ initAuth
  \/ InitAuthResolved
  \/ initAuthRejected
  \/ loginStart
  \/ LoginResolved
  \/ loginRejected
  \/ logout

SpecClient == InitClient /\ [][NextClient]_vars

----------------------------------------------------------------------------
(* utils/jwt.js: getTokenExpirySeconds, on lifetime strings *)

\* A lifetime string is a sequence of characters: digits, the four units
\* and a letter that is no unit
Digits == {"4", "5"}
Units == {"s", "m", "h", "d"}
LifetimeChars == Digits \cup Units \cup {"x"}

RECURSIVE LifetimesOfLen(_)
LifetimesOfLen(n) ==
  IF n = 0 THEN {<<>>}
  ELSE {Append(w, c) : w \in LifetimesOfLen(n - 1), c \in LifetimeChars}

Lifetimes == UNION {LifetimesOfLen(n) : n \in 0..MaxLifetimeLen}

\* A JavaScript number: an integer, or NaN
Num(n) == [n |-> n]
NaN == [nan |-> TRUE]

DigitValue(c) == IF c = "4" THEN 4 ELSE 5

\* str.slice(-1) and str.slice(0, -1)
sliceLast(str) == IF Len(str) = 0 THEN <<>> ELSE <<str[Len(str)]>>
sliceInit(str) == IF Len(str) = 0 THEN <<>> ELSE SubSeq(str, 1, Len(str) - 1)

\* The value of the digits str begins with, read after acc
RECURSIVE leadingDigits(_, _)
leadingDigits(str, acc) ==
  IF Len(str) = 0 \/ Head(str) \notin Digits THEN acc
  ELSE leadingDigits(Tail(str), 10 * acc + DigitValue(Head(str)))

\* parseInt(str): the integer str begins with, NaN when it begins with none
parseInt(str) ==
  IF Len(str) = 0 \/ Head(str) \notin Digits THEN NaN
  ELSE Num(leadingDigits(str, 0))

\* multipliers[unit] || 1
multiplier(unit) ==
  IF unit = <<"s">> THEN 1
  ELSE IF unit = <<"m">> THEN 60
  ELSE IF unit = <<"h">> THEN 60 * 60
  ELSE IF unit = <<"d">> THEN 60 * 60 * 24
  ELSE 1

getTokenExpirySeconds(expiresIn) ==
  LET unit == sliceLast(expiresIn)
      value == parseInt(sliceInit(expiresIn))
  IN IF value = NaN THEN NaN ELSE Num(value.n * multiplier(unit))

InitExpiry ==
  /\ users = (1 :> Seed)
  /\ nextId = 2
  /\ now = 0
  /\ held = {}
  /\ proc = [p \in Procs |-> Idle]
  /\ res = NoResult
  /\ req = NoRequest
  /\ \E str \in Lifetimes : ext = [expiresIn |-> str, out |-> UNDEFINED]
  /\ env = Configured
  /\ conn = "connected"
  /\ feedbacks = <<>>
  /\ client = NoClient

GetTokenExpirySeconds ==
  /\ ext.out = UNDEFINED
  /\ ext' = [ext EXCEPT !.out = getTokenExpirySeconds(ext.expiresIn)]
  /\ UNCHANGED <<users, nextId, now, held, proc, res, req, env, conn, feedbacks, client>>

NextExpiry == GetTokenExpirySeconds

SpecExpiry == InitExpiry /\ [][NextExpiry]_vars

----------------------------------------------------------------------------
(* The error handler, for the errors a handler can pass to next *)

ErrorNames ==
  {"Error", "TypeError", "MongooseError", "ValidationError", "CastError",
   "JsonWebTokenError", "TokenExpiredError"}
ErrorMessages ==
  {"secretOrPrivateKey must have a value", "Illegal arguments",
   "Operation users.findOne() buffering timed out"}

\* Errors that are no AppError: what libraries and the driver throw
InternalErrors ==
  {Thrown(n, m) : n \in ErrorNames, m \in ErrorMessages}
    \cup {DuplicateKeyError("email")}

OperationalErrors ==
  {AuthError("Invalid email or password"),
   ForbiddenError("Admin access required"), NotFoundError("User"),
   ConflictError("User with this email already exists")}

NodeEnvs == Optional({"production", "development"})

InitErrors ==
  /\ users = (1 :> Seed)
  /\ nextId = 2
  /\ now = 0
  /\ held = {}
  /\ proc = [p \in Procs |-> Idle]
  /\ \E e \in InternalErrors \cup OperationalErrors :
       res = Threw("next", e, [path |-> "none"])
  /\ req = NoRequest
  /\ ext = NoExtract
  /\ env \in {[Configured EXCEPT !.NODE_ENV = e] : e \in NodeEnvs}
  /\ conn = "connected"
  /\ feedbacks = <<>>
  /\ client = NoClient

\* next(error) reaches the error handler, which answers
HandleError ==
  /\ res.op = "next"
  /\ res' = [res EXCEPT !.op = "errorHandler", !.value = errorHandler(res.err)]
  /\ UNCHANGED <<users, nextId, now, held, proc, req, ext, env, conn, feedbacks, client>>

NextErrors == HandleError

SpecErrors == InitErrors /\ [][NextErrors]_vars

----------------------------------------------------------------------------
(* Two logins in flight at once, each split at its await *)

Racers == {"p1", "p2"}

InitRace ==
  /\ users = (1 :> Seed)
  /\ nextId = 2
  /\ now = 0
  /\ held = {}
  /\ proc = [p \in Racers |-> Idle]
  /\ res = NoResult
  /\ req = NoRequest
  /\ ext = NoExtract
  /\ env = Configured
  /\ conn = "connected"
  /\ feedbacks = <<>>
  /\ client = NoClient

RaceFind ==
  \E p \in Racers, e \in EmailInputs, pw \in LoginPasswords :
    loginFind(p, e, pw)
RaceCheck == \E p \in Racers, s \in Salts : loginCheck(p, s)

NextRace ==
  \/ RaceFind
  \/ RaceCheck

SpecRace == InitRace /\ [][NextRace]_vars

----------------------------------------------------------------------------
(* Two createUser calls in flight at once, each split at its first await,  *)
(* while accounts are updated and deleted                                  *)

CreateExists ==
  \E p \in Racers, e \in EmailInputs, pw \in NewPasswords,
     r \in Optional({"admin"}) : createExists(p, e, pw, r, UNDEFINED)
CreateWrite == \E p \in Racers, s \in {"s1"} : createWrite(p, s)

NextCreateRace ==
  \/ CreateExists
  \/ CreateWrite
  \/ UpdateUser
  \/ DeleteUser

SpecCreateRace == InitRace /\ [][NextCreateRace]_vars

----------------------------------------------------------------------------
(* The operations and requests that hand an account view to a caller *)

GetAllUsers == getAllUsers
GetUserById == \E id \in 1..MaxUsers : getUserById(id)

ViewRoutes == {"GET /api/user/me", "optionalAuth"}

View ==
  \E rt \in ViewRoutes, h \in SessionHeaders : request(rt, h, NoParams)

NextViews ==
  \/ CreateUser
  \/ UpdateUser
  \/ DeleteUser
  \/ Login
  \/ keepToken
  \/ GetAllUsers
  \/ GetUserById
  \/ View

SpecViews == Init /\ [][NextViews]_vars

----------------------------------------------------------------------------
(* Properties *)

\* The request just handled carried "Bearer <tok>" for one JWT tok
BearerJwt(r) ==
  /\ r.route \in Routes
  /\ r.headers.authorization # UNDEFINED
  /\ Len(r.headers.authorization.str) = 3
  /\ r.headers.authorization.str[1] = Word("Bearer")
  /\ r.headers.authorization.str[2] = SP
  /\ r.headers.authorization.str[3].kind = "jwt"

TokenOf(r) == r.headers.authorization.str[3]

IsAuthDenial(err) ==
  /\ err # NULL
  /\ err.name = "AuthError"
  /\ err.statusCode = 401
  /\ err.errorCode = "AUTH_ERROR"

\* C1: a request whose Bearer token is signed by the server and not expired,
\* but whose subject account is no longer in the store, is denied with
\* AuthError: no user is attached and the handler is not reached.
C1_DeletedAccountDenied ==
  (/\ BearerJwt(req)
   /\ TokenOf(req).sig = JWT_SECRET
   /\ now < TokenOf(req).payload.exp
   /\ TokenOf(req).payload.id \notin DOMAIN users)
    => /\ IsAuthDenial(req.err)
       /\ req.user = UNDEFINED
       /\ req.tokenPayload = UNDEFINED
       /\ ~req.handled

C1_Witness ==
  /\ BearerJwt(req)
  /\ TokenOf(req) \in held
  /\ TokenOf(req).sig = JWT_SECRET
  /\ now < TokenOf(req).payload.exp
  /\ TokenOf(req).payload.id \notin DOMAIN users
  /\ req.err = AuthError("User no longer exists")

\* The result of a login that returned a token, and of one that failed
LoginSucceeded(r) == r.op = "login" /\ r.err = NULL
LoginFailed(r) == r.op = "login" /\ r.err # NULL

\* The step completes the password check of a login that had read the account
ChecksPassword(p) == proc[p].pc = "login" /\ proc'[p] = Idle

\* C2: after a login that returned a token, the stored secret of the account
\* (while the account exists) satisfies isBcryptHash, and no step of login,
\* createUser, updateUser or deleteUser turns a stored secret that satisfies
\* isBcryptHash into one that does not.
C2_HashedAfterLogin ==
  /\ [](LoginSucceeded(res) /\ res.info.user._id \in DOMAIN users
          => isBcryptHash(users[res.info.user._id].password))
  /\ [][\A id \in DOMAIN users \cap DOMAIN users' :
          isBcryptHash(users[id].password)
            => isBcryptHash(users'[id].password)]_vars

C2_Witness ==
  /\ LoginSucceeded(res)
  /\ res.info.path = "legacy"
  /\ ~isBcryptHash(res.info.user.password)
  /\ res.info.user._id \in DOMAIN users
  /\ isBcryptHash(users[res.info.user._id].password)

\* C3: when login checks a password that differs from the legacy (not
\* isBcryptHash) secret it read, it fails with AuthError "Invalid email or
\* password" and the users collection is left as it was.
C3_FailedLegacyLoginNoWrite ==
  [][\A p \in Procs :
       (/\ ChecksPassword(p)
        /\ ~isBcryptHash(proc[p].user.password)
        /\ proc[p].password # proc[p].user.password)
         => /\ users' = users
            /\ res' = Threw("login", AuthError("Invalid email or password"),
                            res'.info)]_vars

C3_Witness ==
  /\ LoginFailed(res)
  /\ res.info.path = "legacy"
  /\ res.info.password # res.info.user.password
  /\ res.info.user._id \in DOMAIN users
  /\ users[res.info.user._id].password = res.info.user.password
  /\ ~isBcryptHash(users[res.info.user._id].password)

\* C4: a login with password P on a legacy account whose secret is P returns
\* a token and leaves a stored secret that satisfies isBcryptHash and verifies
\* P; the login with P on the same account that follows it returns a token
\* too, compares by comparePassword, and does not change the users collection.
C4_SecondLoginHashedPath ==
  /\ [](LoginSucceeded(res) /\ res.info.path = "legacy"
          => /\ res.info.user._id \in DOMAIN users
             /\ isBcryptHash(users[res.info.user._id].password)
             /\ comparePassword(res.info.password,
                                users[res.info.user._id].password))
  /\ [][(/\ LoginSucceeded(res)
         /\ res.info.path = "legacy"
         /\ res'.op = "login"
         /\ res'.info.path # "not found"
         /\ res'.info.user._id = res.info.user._id
         /\ res'.info.password = res.info.password)
          => /\ LoginSucceeded(res')
             /\ res'.info.path = "bcrypt"
             /\ users' = users]_vars

C4_Witness ==
  /\ LoginSucceeded(res)
  /\ res.info.path = "bcrypt"
  /\ res.info.password = P1
  /\ res.info.user._id = Seed._id
  /\ users[Seed._id].password = res.info.user.password

\* C5: every failed login, whether the email matched no account, the bcrypt
\* comparison failed or the legacy comparison failed, gives the caller the
\* same error (AuthError, 401, "Invalid email or password") and no value.
C5_LoginFailuresIdentical ==
  LoginFailed(res)
    => /\ res.err = AuthError("Invalid email or password")
       /\ res.err.statusCode = 401
       /\ res.value = UNDEFINED
       /\ res.info.path \in {"not found", "bcrypt", "legacy"}

C5_Witness ==
  /\ LoginFailed(res)
  /\ res.info.path = "not found"
  /\ \E id \in DOMAIN users : isBcryptHash(users[id].password)

\* "Bearer", one space, then a part without a space (possibly empty)
BearerAndOnePart(h) ==
  /\ h # UNDEFINED
  /\ Len(h.str) >= 2
  /\ h.str[1] = Word("Bearer")
  /\ h.str[2] = SP
  /\ \A i \in 3..Len(h.str) : h.str[i] # SP

\* C6: extractToken passes something to verifyToken exactly when the header
\* is present and is the word "Bearer", one space and one space-free part;
\* then it passes that part and returns verifyToken's answer.  For every
\* other header (absent, empty, another or lower-case scheme word, "Bearer"
\* alone, a second space, a third part) it returns null and verifies nothing.
C6_ExtractTokenShape ==
  ext.out # UNDEFINED
    => IF BearerAndOnePart(ext.authorization)
         THEN LET part == SubSeq(ext.authorization.str, 3,
                                 Len(ext.authorization.str))
              IN /\ ext.out.verified = <<part>>
                 /\ ext.out.ret = verifyToken(part, now)
         ELSE ext.out = [ret |-> NULL, verified |-> <<>>]

C6_Witness ==
  /\ ext.authorization = Str(<<Word("Bearer"), SP, SP, SeedToken>>)
  /\ verifyToken(<<SeedToken>>, now) # NULL
  /\ ext.out = [ret |-> NULL, verified |-> <<>>]

\* The request just handled carried "Bearer <x>" for one atom x
BearerOne(r) ==
  /\ r.route \in Routes
  /\ r.headers.authorization # UNDEFINED
  /\ Len(r.headers.authorization.str) = 3
  /\ r.headers.authorization.str[1] = Word("Bearer")
  /\ r.headers.authorization.str[2] = SP
  /\ r.headers.authorization.str[3] # SP

Malformed(x) == x.kind # "jwt"
BadSignature(x) == x.kind = "jwt" /\ x.sig # JWT_SECRET
Expired(x, t) == x.kind = "jwt" /\ x.sig = JWT_SECRET /\ t >= x.payload.exp

\* C7: for a token that is malformed, signed with another key, or expired,
\* verifyToken returns null (it throws nothing), and requireAuth denies the
\* request with AuthError "Invalid or expired token" in each of the cases.
C7_InvalidTokenIsNull ==
  (/\ BearerOne(req)
   /\ \/ Malformed(TokenOf(req))
      \/ BadSignature(TokenOf(req))
      \/ Expired(TokenOf(req), now))
    => /\ verifyToken(<<TokenOf(req)>>, now) = NULL
       /\ req.err = AuthError("Invalid or expired token")
       /\ req.user = UNDEFINED
       /\ ~req.handled

C7_Witness ==
  /\ BearerOne(req)
  /\ Expired(TokenOf(req), now)
  /\ TokenOf(req) \in held
  /\ TokenOf(req).payload.id \in DOMAIN users
  /\ req.err = AuthError("Invalid or expired token")

C9_LoginTokenResolvesToAccount ==
  [][(/\ LoginSucceeded(res)
      /\ req'.route \in Routes
      /\ req'.headers.authorization
           = Str(<<Word("Bearer"), SP, res.value.token>>))
       => /\ req'.user # UNDEFINED
          /\ req'.user._id = res.info.user._id
          /\ req'.user = NoPassword(users'[res.info.user._id])
          /\ req'.tokenPayload = res.value.token.payload
          /\ DOMAIN req'.tokenPayload = {"id", "email", "role", "iat", "exp"}
          /\ req'.tokenPayload.id = res.info.user._id
          /\ req'.tokenPayload.email = res.info.user.email
          /\ req'.tokenPayload.role = res.info.user.role
          /\ req'.route = "GET /api/user/me"
               => req'.err = NULL /\ req'.handled]_vars

C9_Witness ==
  /\ BearerJwt(req)
  /\ TokenOf(req).sig = JWT_SECRET
  /\ TokenOf(req).payload.iat = now
  /\ req.handled
  /\ req.user = NoPassword(users[TokenOf(req).payload.id])
  /\ req.tokenPayload = TokenOf(req).payload

\* C10: on a route guarded by requireAdmin, a request that requireAuth has
\* authenticated reaches the handler exactly when the attached account's
\* role is "admin"; with any other role it ends in ForbiddenError (403,
\* FORBIDDEN) and the handler is not reached.
C10_AdminOnly ==
  (/\ req.route = "GET /api/user"
   /\ req.user # UNDEFINED)
    => /\ req.handled <=> req.user.role = "admin"
       /\ req.user.role = "admin" => req.err = NULL
       /\ req.user.role # "admin"
            => /\ req.err = ForbiddenError("Admin access required")
               /\ req.err.name = "ForbiddenError"
               /\ req.err.statusCode = 403
               /\ req.err.errorCode = "FORBIDDEN"

C10_Witness ==
  /\ req.route = "GET /api/user"
  /\ req.user # UNDEFINED
  /\ req.user.role = "user"
  /\ req.err = ForbiddenError("Admin access required")
  /\ ~req.handled

\* A request was handled
Handled(r) == r.route # "none"

IsForbidden(err) ==
  /\ err # NULL
  /\ err.name = "ForbiddenError"
  /\ err.statusCode = 403
  /\ err.errorCode = "FORBIDDEN"

\* C11: when req.user is not set, requireAdmin and requireOwnershipOrAdmin
\* deny with AuthError (401, "Authentication required"), not ForbiddenError,
\* for every requested :userId; on every route that is not public the
\* request with no req.user ends in AuthError and not in ForbiddenError.
C11_NoIdentityIsUnauthenticated ==
  /\ (/\ req.route \in {"requireAdmin", "requireOwnershipOrAdmin"}
      /\ req.user = UNDEFINED)
       => /\ req.err = AuthError("Authentication required")
          /\ req.err.statusCode = 401
          /\ ~IsForbidden(req.err)
          /\ ~req.handled
  /\ (/\ req.route \in AllRoutes \ PublicRoutes
      /\ req.user = UNDEFINED)
       => /\ IsAuthDenial(req.err)
          /\ ~IsForbidden(req.err)
          /\ ~req.handled

C11_Witness ==
  /\ req.route = "requireOwnershipOrAdmin"
  /\ req.user = UNDEFINED
  /\ req.params.userId = toString(Seed._id)
  /\ Seed._id \in DOMAIN users
  /\ req.err = AuthError("Authentication required")

\* C12: with an account in req.user, requireOwnershipOrAdmin (mounted alone
\* or after requireAuth on GET /api/feedback/user/:userId) lets the request
\* through exactly when the account's role is "admin" or toString of its id
\* is the same string as the :userId parameter; otherwise the request ends
\* in ForbiddenError (403) and the handler is not reached.
C12_OwnershipOrAdmin ==
  (/\ req.route \in OwnerRoutes \cup {"requireOwnershipOrAdmin"}
   /\ req.user # UNDEFINED)
    => LET allowed == \/ req.user.role = "admin"
                      \/ toString(req.user._id) = req.params.userId
       IN /\ req.handled <=> allowed
          /\ allowed => req.err = NULL
          /\ ~allowed
               => /\ req.err
                      = ForbiddenError("You can only access your own resources")
                  /\ IsForbidden(req.err)

C12_Witness ==
  /\ req.route \in OwnerRoutes
  /\ req.user # UNDEFINED
  /\ req.user.role = "user"
  /\ req.params.userId = toString(req.user._id)
  /\ \E id \in DOMAIN users : id # req.user._id
  /\ req.handled

\* The request just handled carried "Bearer <tok>" for a token the server
\* signed, not yet expired, whose subject account is in the store
LiveToken(r) ==
  /\ Handled(r)
  /\ r.headers.authorization # UNDEFINED
  /\ Len(r.headers.authorization.str) = 3
  /\ r.headers.authorization.str[1] = Word("Bearer")
  /\ r.headers.authorization.str[2] = SP
  /\ r.headers.authorization.str[3].kind = "jwt"
  /\ r.headers.authorization.str[3].sig = JWT_SECRET
  /\ now < r.headers.authorization.str[3].payload.exp
  /\ r.headers.authorization.str[3].payload.id \in DOMAIN users

\* C13: a request with a live token is judged by the role the account has
\* in the store when the request is handled, whatever role claim the token
\* carries: on the admin route it reaches the handler exactly when the
\* stored role is "admin" and is otherwise forbidden, and on the ownership
\* route exactly when the stored role is "admin" or the account is the owner.
C13_StoredRoleDecides ==
  LiveToken(req)
    => LET stored == users[TokenOf(req).payload.id]
           owner == toString(stored._id) = req.params.userId
       IN /\ req.route = "GET /api/user"
               => /\ req.handled <=> stored.role = "admin"
                  /\ stored.role # "admin" => IsForbidden(req.err)
          /\ req.route = "GET /api/feedback/user/:userId"
               => /\ req.handled <=> (stored.role = "admin" \/ owner)
                  /\ ~(stored.role = "admin" \/ owner)
                       => IsForbidden(req.err)

C13_Witness ==
  /\ LiveToken(req)
  /\ req.route = "GET /api/user"
  /\ TokenOf(req) \in held
  /\ TokenOf(req).payload.role = "admin"
  /\ users[TokenOf(req).payload.id].role = "user"
  /\ IsForbidden(req.err)
  /\ ~req.handled

\* The request just handled carried "Bearer <tok>" for a token that verifies
Verifies(r) ==
  /\ Handled(r)
  /\ r.headers.authorization # UNDEFINED
  /\ Len(r.headers.authorization.str) = 3
  /\ r.headers.authorization.str[1] = Word("Bearer")
  /\ r.headers.authorization.str[2] = SP
  /\ r.headers.authorization.str[3].kind = "jwt"
  /\ r.headers.authorization.str[3].sig = JWT_SECRET
  /\ now < r.headers.authorization.str[3].payload.exp

\* C14: when the account lookup of requireAuth throws (the connection is
\* down) for a request whose token verifies, the request ends in exactly
\* AuthError("Authentication failed"), which has the fields of an AppError
\* and none of the thrown error; no user is attached and the handler is not
\* reached, on every route behind requireAuth and with requireAuth alone.
C14_LookupFaultIsGenericDenial ==
  (/\ Verifies(req)
   /\ req.route \in (AllRoutes \ PublicRoutes) \cup {"requireAuth"}
   /\ conn = "down")
    => /\ req.err = AuthError("Authentication failed")
       /\ IsAuthDenial(req.err)
       /\ DOMAIN req.err = {"name", "message", "statusCode", "errorCode",
                             "isOperational"}
       /\ req.user = UNDEFINED
       /\ req.tokenPayload = UNDEFINED
       /\ ~req.handled

C14_Witness ==
  /\ Verifies(req)
  /\ req.route = "GET /api/user"
  /\ conn = "down"
  /\ TokenOf(req).payload.id \in DOMAIN users
  /\ users[TokenOf(req).payload.id].role = "admin"
  /\ req.err = AuthError("Authentication failed")

\* optionalAuth attached both req.user and req.tokenPayload, or neither
Attached(r) == r.user # UNDEFINED /\ r.tokenPayload # UNDEFINED
NotAttached(r) == r.user = UNDEFINED /\ r.tokenPayload = UNDEFINED

\* C15 as claimed: optionalAuth calls next once with no error for every
\* header, store and connection state, and attaches req.user and
\* req.tokenPayload exactly when the token verifies and the subject account
\* is in the store.
C15_AttachedIffAccountExists ==
  req.route = "optionalAuth"
    => /\ req.err = NULL
       /\ req.nexts = 1
       /\ Attached(req)
            <=> (Verifies(req) /\ TokenOf(req).payload.id \in DOMAIN users)

\* C15, amended: optionalAuth calls next exactly once with no error for
\* every header, store and connection state; it attaches req.user (the
\* stored account without its password) and req.tokenPayload exactly when
\* the token verifies, the lookup does not throw and the subject account is
\* in the store, and attaches neither otherwise.
C15_OptionalAuthNeverDenies ==
  req.route = "optionalAuth"
    => /\ req.err = NULL
       /\ req.nexts = 1
       /\ req.handled
       /\ Attached(req) \/ NotAttached(req)
       /\ Attached(req)
            <=> (/\ Verifies(req)
                 /\ conn = "connected"
                 /\ TokenOf(req).payload.id \in DOMAIN users)
       /\ Attached(req)
            => /\ req.user = NoPassword(users[TokenOf(req).payload.id])
               /\ req.tokenPayload = TokenOf(req).payload

C15_Witness ==
  /\ req.route = "optionalAuth"
  /\ Verifies(req)
  /\ TokenOf(req).payload.id \in DOMAIN users
  /\ conn = "down"
  /\ NotAttached(req)
  /\ req.err = NULL
  /\ req.nexts = 1

CorrectOnLegacy(p) ==
  /\ proc[p].pc = "login"
  /\ ~isBcryptHash(proc[p].user.password)
  /\ proc[p].password = proc[p].user.password

\* C18: with two logins in flight on the V1 admin account, every login that
\* read the legacy secret and carries the correct password returns a token
\* when it completes, whatever the other login has read or written in
\* between, and leaves a stored secret that satisfies isBcryptHash and
\* verifies that password; whenever the stored secret is hashed (so also
\* after both have finished) it verifies the account's password.
C18_RacingMigrations ==
  /\ [][\A p \in Racers :
          (CorrectOnLegacy(p) /\ ChecksPassword(p))
            => /\ LoginSucceeded(res')
               /\ res'.info.user = proc[p].user
               /\ isBcryptHash(users'[proc[p].user._id].password)
               /\ comparePassword(proc[p].password,
                                  users'[proc[p].user._id].password)]_vars
  /\ [](isBcryptHash(users[Seed._id].password)
          => comparePassword(Seed.password, users[Seed._id].password))

C18_Witness ==
  /\ \E p \in Racers : CorrectOnLegacy(p)
  /\ LoginSucceeded(res)
  /\ res.info.path = "legacy"
  /\ isBcryptHash(users[Seed._id].password)
  /\ comparePassword(Seed.password, users[Seed._id].password)

\* C19: a request whose token was signed by the server, has not expired and
\* names an account in the store passes requireAuth, whatever has happened
\* to the account since the token was issued (a later login, a password
\* change by updateUser or by migration, a role change): the account as
\* stored now and the token's claims are attached, requireAuth continues
\* without an error, the current-user route reaches its handler, and any
\* denial further down the chain is a ForbiddenError, never an AuthError.
C19_OnlyTimeInvalidates ==
  LiveToken(req)
    => /\ req.user = NoPassword(users[TokenOf(req).payload.id])
       /\ req.tokenPayload = TokenOf(req).payload
       /\ req.nexts >= 1
       /\ req.err # NULL => IsForbidden(req.err)
       /\ req.route = "GET /api/user/me" => (req.handled /\ req.err = NULL)

C19_Witness ==
  /\ LiveToken(req)
  /\ req.route = "GET /api/user/me"
  /\ TokenOf(req) \in held
  /\ TokenOf(req).payload.id = Seed._id
  /\ users[TokenOf(req).payload.id].role # TokenOf(req).payload.role
  /\ \E pw \in NewPasswords :
       comparePassword(pw, users[TokenOf(req).payload.id].password)
  /\ req.handled

\* The login that just ended found the account and carried its password
CorrectCredentials(r) ==
  /\ r.op = "login"
  /\ r.info.path # "not found"
  /\ IF isBcryptHash(r.info.user.password)
       THEN comparePassword(r.info.password, r.info.user.password)
       ELSE r.info.password = r.info.user.password

\* C20: with no signing key in the environment, a login with the correct
\* password of an existing account (legacy or hashed) ends with the error
\* jwt.sign threw, which is not an operational error, and with no result;
\* the caller is answered 500 INTERNAL_ERROR, not 401 or 403, and the
\* answer carries no token.
C20_NoKeyIsFatal ==
  CorrectCredentials(res)
    => /\ res.err # NULL
       /\ IsThrown(res.err)
       /\ "isOperational" \notin DOMAIN res.err
       /\ res.value = UNDEFINED
       /\ loginUser(res).status = 500
       /\ loginUser(res).body.error = "INTERNAL_ERROR"
       /\ "token" \notin DOMAIN loginUser(res).body

C20_Witness ==
  /\ CorrectCredentials(res)
  /\ env.JWT_SECRET = UNDEFINED
  /\ isBcryptHash(res.info.user.password)
  /\ res.err = Thrown("Error", "secretOrPrivateKey must have a value")
  /\ loginUser(res).status = 500

\* The step is createUser for a new email, with a hashing backend that fails
CreateWithHashFault ==
  \E e \in EmailInputs, pw \in SuppliedPasswords, r \in Optional({"admin"}) :
    /\ ~existsByEmail(users, e)
    /\ createUser(e, pw, r, UNDEFINED, GenSaltThrows)

\* The step is a login with the password of a legacy account, with a
\* hashing backend that fails
MigrateWithHashFault ==
  \E e \in EmailInputs, pw \in LoginPasswords :
    /\ findByEmail(users, e) # NULL
    /\ findByEmail(users, e).password = pw
    /\ ~isBcryptHash(pw)
    /\ login(e, pw, GenSaltThrows)

\* C21: when hashPassword throws, createUser for a new email creates no
\* account (the store is unchanged) and ends with what was thrown; a login
\* with the correct password of a legacy account ends with what was thrown,
\* which is not an operational error and is answered 500 INTERNAL_ERROR,
\* returns nothing, and leaves the store as it was, the secret still legacy.
C21_HashFaultIsFatal ==
  /\ [][CreateWithHashFault
          => /\ users' = users
             /\ nextId' = nextId
             /\ res'.op = "createUser"
             /\ res'.err = HashFault
             /\ res'.value = UNDEFINED
             /\ errorHandler(res'.err).status = 500]_vars
  /\ [][MigrateWithHashFault
          => /\ users' = users
             /\ res'.op = "login"
             /\ res'.err = HashFault
             /\ "isOperational" \notin DOMAIN res'.err
             /\ res'.value = UNDEFINED
             /\ ~isBcryptHash(users'[res'.info.user._id].password)
             /\ users'[res'.info.user._id].password = res'.info.password
             /\ errorHandler(res'.err).status = 500
             /\ errorHandler(res'.err).body.error = "INTERNAL_ERROR"]_vars

C21_Witness ==
  /\ res.op = "login"
  /\ res.err = HashFault
  /\ res.value = UNDEFINED
  /\ res.info.password = P1
  /\ users[Seed._id].password = P1

\* The error handler has answered an error that is no AppError
AnsweredInternal(r) ==
  r.op = "errorHandler" /\ "isOperational" \notin DOMAIN r.err

\* The error is one of the Mongoose and JWT errors the handler knows by name
\* or code
NamedError(err) ==
  \/ err.thrown \in {"ValidationError", "CastError", "JsonWebTokenError",
                     "TokenExpiredError"}
  \/ "code" \in DOMAIN err /\ err.code = 11000

GenericMessage == "An unexpected error occurred"

\* C22 as stated: every error that is no AppError is answered with 500,
\* INTERNAL_ERROR and the generic message.
C22_EveryInternalErrorIsGeneric ==
  AnsweredInternal(res)
    => /\ res.value.status = 500
       /\ res.value.body.error = "INTERNAL_ERROR"
       /\ res.value.body.message = GenericMessage

\* C22, amended: an error that is no AppError and none of the errors the
\* handler knows by name or code is answered with 500 and INTERNAL_ERROR;
\* the message is the generic one when NODE_ENV is "production" and the
\* error's own message otherwise.
C22_UnknownErrorIs500 ==
  (AnsweredInternal(res) /\ ~NamedError(res.err))
    => /\ res.value.status = 500
       /\ res.value.body.error = "INTERNAL_ERROR"
       /\ res.value.body.message =
            IF env.NODE_ENV = Some("production") THEN GenericMessage
                                                 ELSE res.err.message

C22_Witness ==
  /\ AnsweredInternal(res)
  /\ res.err = Thrown("Error", "secretOrPrivateKey must have a value")
  /\ env.NODE_ENV = Some("production")
  /\ res.value = Response(500, "INTERNAL_ERROR", GenericMessage)

\* The secret is stored hashed, is not the password as supplied, and
\* verifies it
StoredHashed(account, password) ==
  /\ isBcryptHash(account.password)
  /\ account.password # password
  /\ comparePassword(password, account.password)

\* C23: every createUser that returns has added one account whose stored
\* secret satisfies isBcryptHash, differs from the supplied password and
\* verifies it, and every updateUser with a password that returns has left
\* such a secret on the account it updated; this holds also for a supplied
\* password that itself reads as a bcrypt hash.
C23_WritesStoreHashes ==
  /\ [][\A e \in EmailInputs, pw \in SuppliedPasswords,
           r \in Optional({"admin"}), s \in HashOutcomes :
          (createUser(e, pw, r, UNDEFINED, s) /\ res'.err = NULL)
            => /\ DOMAIN users' = DOMAIN users \cup {nextId}
               /\ nextId \notin DOMAIN users
               /\ StoredHashed(users'[nextId], pw)]_vars
  /\ [][\A id \in 1..MaxUsers, pw \in SuppliedPasswords, s \in HashOutcomes :
          (updateUser(id, [NoUpdate EXCEPT !.password = Some(pw)], s)
             /\ res'.err = NULL)
            => StoredHashed(users'[id], pw)]_vars

C23_Witness ==
  /\ res.op = "updateUser"
  /\ res.err = NULL
  /\ res.info.id = Seed._id
  /\ StoredHashed(users[Seed._id], PLooksHashed)
  /\ \E id \in DOMAIN users : id # Seed._id /\ StoredHashed(users[id], P2)

\* The step is createUser with an email that, normalized, some account has
CreateWithTakenEmail ==
  \E e \in EmailInputs, pw \in SuppliedPasswords, r \in Optional({"admin"}),
     s \in HashOutcomes :
    /\ \E id \in DOMAIN users : users[id].email = toLowerCase(e)
    /\ createUser(e, pw, r, UNDEFINED, s)

\* C24: createUser with an email that already belongs to an account, in any
\* letter case and whatever the hashing backend would do, ends with
\* ConflictError (409 CONFLICT), returns nothing and leaves the store as it
\* was: the same accounts with the same email, secret, role and verified flag.
C24_DuplicateEmailConflict ==
  [][CreateWithTakenEmail
       => /\ res'.op = "createUser"
          /\ res'.err = ConflictError("User with this email already exists")
          /\ errorHandler(res'.err).status = 409
          /\ res'.value = UNDEFINED
          /\ users' = users
          /\ nextId' = nextId]_vars

C24_Witness ==
  /\ res.op = "createUser"
  /\ res.err = ConflictError("User with this email already exists")
  /\ res.info.email = "Admin@Test.com"
  /\ users[Seed._id].email = "admin@test.com"
  /\ Cardinality(DOMAIN users) = 2

\* The string is one or more digits
IsNumber(str) == Len(str) > 0 /\ \A i \in 1..Len(str) : str[i] \in Digits

\* C25: for a number followed by a unit the result is the number times the
\* unit's multiplier (s 1, m 60, h 3600, d 86400); for a number followed by
\* a character that is no unit it is the number; and for a number with no
\* unit it is that number.
C25_LifetimeParsing ==
  (ext.out # UNDEFINED /\ Len(ext.expiresIn) > 0)
    => LET str == ext.expiresIn
           last == str[Len(str)]
           init == sliceInit(str)
       IN /\ (IsNumber(init) /\ last = "s")
               => ext.out = Num(leadingDigits(init, 0))
          /\ (IsNumber(init) /\ last = "m")
               => ext.out = Num(leadingDigits(init, 0) * 60)
          /\ (IsNumber(init) /\ last = "h")
               => ext.out = Num(leadingDigits(init, 0) * 3600)
          /\ (IsNumber(init) /\ last = "d")
               => ext.out = Num(leadingDigits(init, 0) * 86400)
          /\ (IsNumber(init) /\ last = "x")
               => ext.out = Num(leadingDigits(init, 0))
          /\ IsNumber(str) => ext.out = Num(leadingDigits(str, 0))

\* C26: in every reachable state, also while two createUser calls are
\* between their existence check and their create and accounts are updated
\* and deleted, every stored email is in normalized form and no two
\* accounts have the same email; a create that lost the race ends with the
\* driver's duplicate key error, which is answered 409 CONFLICT, and writes
\* nothing.
C26_OneAccountPerEmail ==
  /\ [](\A i, j \in DOMAIN users :
          /\ users[i].email = toLowerCase(users[i].email)
          /\ users[i].email = users[j].email => i = j)
  /\ [][\A p \in Racers :
          (/\ proc[p].pc = "createUser"
           /\ proc'[p] = Idle
           /\ \E i \in DOMAIN users :
                users[i].email = toLowerCase(proc[p].email))
            => /\ users' = users
               /\ res'.err = DuplicateKeyError("email")
               /\ errorHandler(res'.err).status = 409
               /\ errorHandler(res'.err).body.error = "CONFLICT"]_vars

C26_Witness ==
  /\ res.op = "createUser"
  /\ res.err = DuplicateKeyError("email")
  /\ res.info.email = "a@b.com"
  /\ \E i \in DOMAIN users : users[i].email = "a@b.com"
  /\ \A p \in Racers : proc[p] = Idle

\* The login in flight read the legacy secret P it carries, and the account
\* has since been given the password q
OvertakenByUpdate(p, q) ==
  /\ CorrectOnLegacy(p)
  /\ q # proc[p].password
  /\ proc[p].user._id \in DOMAIN users
  /\ comparePassword(q, users[proc[p].user._id].password)

\* C27: when a login that read a legacy secret P completes after updateUser
\* has set the password Q on the account, the stored secret still verifies
\* Q and does not verify P.
C27_MigrationKeepsNewerPassword ==
  [][\A p \in Procs, q \in NewPasswords :
       (OvertakenByUpdate(p, q) /\ ChecksPassword(p))
         => /\ comparePassword(q, users'[proc[p].user._id].password)
            /\ ~comparePassword(proc[p].password,
                                users'[proc[p].user._id].password)]_vars

\* C28: every step that stores a feedback document stores exactly one, at
\* the end, with userId equal to the id of the account requireAuth attached
\* to the request (the subject of its token), whatever the body carried,
\* also when the body has a userId field naming another account.
C28_FeedbackAttributedToCaller ==
  [][feedbacks' # feedbacks
       => /\ Len(feedbacks') = Len(feedbacks) + 1
          /\ SubSeq(feedbacks', 1, Len(feedbacks)) = feedbacks
          /\ req'.route = "POST /api/feedback"
          /\ req'.user # UNDEFINED
          /\ req'.user._id = TokenOf(req').payload.id
          /\ feedbacks'[Len(feedbacks')].userId = req'.user._id]_vars

C28_Witness ==
  /\ res.op = "createFeedback"
  /\ req.handled
  /\ req.user._id # Seed._id
  /\ res.info.body.userId = Some(Seed._id)
  /\ feedbacks[Len(feedbacks)].userId = req.user._id
  /\ res.value.userId = req.user._id

\* What the service gave is a thrown ForbiddenError
ThrowsForbidden(result) ==
  "isOperational" \in DOMAIN result /\ IsForbidden(result)

\* C29: on GET /api/feedback/user/:userId, for every account requireAuth
\* resolved and every requested userId, requireOwnershipOrAdmin forbids
\* exactly when FeedbackService.getFeedbackByUser, given the same userId and
\* account, throws ForbiddenError; so a request the middleware let through
\* reaches the service and is answered without an error.
C29_OwnershipChecksAgree ==
  (req.route = "GET /api/feedback/user/:userId" /\ req.user # UNDEFINED)
    => /\ IsForbidden(req.err)
            <=> ThrowsForbidden(FeedbackService_getFeedbackByUser(
                                  req.params.userId, req.user))
       /\ req.handled <=> ~IsForbidden(req.err)
       /\ req.handled => (res.op = "getFeedbackByUser" /\ res.err = NULL)

C29_Witness ==
  /\ req.route = "GET /api/feedback/user/:userId"
  /\ req.handled
  /\ req.user.role = "user"
  /\ req.params.userId = toString(req.user._id)
  /\ res.op = "getFeedbackByUser"
  /\ res.err = NULL
  /\ res.value.count = 1

\* A protected page, plain or admin-only, is on screen
RendersChildren(c, adminOnly) == ProtectedRoute(c, adminOnly) = "children"

\* C30: ProtectedRoute renders its children only when loading is false,
\* token and user are both set and, on a requireAdmin route, the user's
\* role is admin; right after logout and after a failed startup check
\* the token is null and no protected page is rendered, and from then on
\* the token stays null, so none is rendered, until a login resolves.
C30_ProtectedRouteGuards ==
  /\ [](\A ra \in BOOLEAN :
          RendersChildren(client, ra)
            => /\ ~client.loading
               /\ client.token # NULL
               /\ client.user # NULL
               /\ ra => client.user.role = "admin")
  /\ [][res'.op \in {"logout", "initAuth rejected"}
          => /\ client'.token = NULL
             /\ \A ra \in BOOLEAN : ~RendersChildren(client', ra)]_vars
  /\ [][(client.token = NULL /\ client'.token # NULL)
          => res'.op = "login resolved"]_vars

C30_Witness ==
  /\ res.op = "initAuth rejected"
  /\ ~client.loading
  /\ client.login = "idle"
  /\ client.localStorage.token = NULL
  /\ ProtectedRoute(client, FALSE) = "Navigate /login"
  /\ ProtectedRoute(client, TRUE) = "Navigate /login"

\* The record handed to a caller has no password field
Sanitized(view) == "password" \notin DOMAIN view

====
